---- MODULE Spec2Model ----
(***************************************************************************)
(* The HLS segment loop of streamrecorder.                                 *)
(*                                                                         *)
(* Two drafts of the loop exist in the repository: Recorder (src/main.rs)  *)
(* and SegmentRecorder (src/recorder.rs).  The variable draft selects the  *)
(* one a behaviour runs.  They differ in how the output file is opened     *)
(* (append vs. truncate) and in the 10 s timeout that SegmentRecorder puts *)
(* around send() of the playlist request.                                  *)
(*                                                                         *)
(* The network is the environment: every request either fails, stalls, or  *)
(* returns response headers with a status and then a body.  reqwest's      *)
(* send() returns Ok for every status; neither draft calls                 *)
(* error_for_status().                                                     *)
(*                                                                         *)
(* The output is a tokio::fs::File.  Its write returns once the bytes are  *)
(* copied into the handle's buffer and a blocking task has been spawned to *)
(* write them; the result of that task is looked at by the next write on   *)
(* the handle (or by flush, which neither draft calls).  A segment is      *)
(* taken to fit the handle's buffer, so one write_all is one task.         *)
(*                                                                         *)
(* Left out: total_bytes and the progress lines of SegmentRecorder::run,   *)
(* which go to stderr only, and everything before new (token, variants).   *)
(* Playlist texts end their lines with "\n" only.                          *)
(*                                                                         *)
(* Three specifications: Spec, one session of one draft with its           *)
(* environment; FairSpec, the same under weak fairness of the steps that   *)
(* a running runtime and completing requests make sure of; PairSpec, both  *)
(* drafts side by side on the same file and the same events.               *)
(***************************************************************************)
EXTENDS Integers, Sequences, FiniteSets, TLC

(* ---------------- bounds of the model ---------------- *)

\* poll cycles a behaviour may start
MaxPolls == 2
\* lines of one playlist text
MaxLines == 2
\* bytes of one segment
SegLen == 2

(* ---------------- constants of the program ---------------- *)

\* Duration::from_secs(10) around send() of the playlist request
PlaylistTimeoutSecs == 10
\* sleep(Duration::from_secs(5)) between two cycles
SleepSecs == 5

Drafts == {"Recorder", "SegmentRecorder"}

\* HTTP statuses the environment answers with: success and non-success
Statuses == {200, 404}

(* ---------------- generic helpers ---------------- *)

IsPrefix(s, t) == Len(s) <= Len(t) /\ SubSeq(t, 1, Len(s)) = s

Range(s) == {s[i] : i \in 1..Len(s)}

NoDup(s) == \A i, j \in 1..Len(s) : s[i] = s[j] => i = j

RECURSIVE Flatten(_)
Flatten(ss) == IF ss = <<>> THEN <<>> ELSE Head(ss) \o Flatten(Tail(ss))

\* the elements of s at their first occurrence, in order
RECURSIVE FirstOccurrences(_, _)
FirstOccurrences(s, had) ==
    IF s = <<>> THEN <<>>
    ELSE IF Head(s) \in had THEN FirstOccurrences(Tail(s), had)
         ELSE <<Head(s)>> \o FirstOccurrences(Tail(s), had \cup {Head(s)})

(* ---------------- playlist texts ---------------- *)

\* A text is a sequence of characters, a line a sequence of characters
\* without "\n".  The lines playlists are built from: a blank line, a
\* directive, and two segment locators.
LineChoices == { <<>>, <<"#", "a">>, <<"a">>, <<"b">> }

\* the texts of at most n lines, each ended by a newline
RECURSIVE TerminatedTexts(_)
TerminatedTexts(n) ==
    IF n = 0 THEN { <<>> }
    ELSE TerminatedTexts(n - 1) \cup
         { l \o <<"\n">> \o t : l \in LineChoices, t \in TerminatedTexts(n - 1) }

\* every text of at most MaxLines lines, the last with or without newline
Texts ==
    TerminatedTexts(MaxLines) \cup
    { t \o l : t \in TerminatedTexts(MaxLines - 1), l \in LineChoices }

(* ---------------- the playlist parser ---------------- *)

\* str::lines(): the next line of the remaining text and what remains after
\* it; the newline that ends the line belongs to neither.
RECURSIVE NextLine(_)
NextLine(rest) ==
    IF rest = <<>> THEN [line |-> <<>>, rest |-> <<>>]
    ELSE IF Head(rest) = "\n" THEN [line |-> <<>>, rest |-> Tail(rest)]
    ELSE LET n == NextLine(Tail(rest))
         IN  [line |-> <<Head(rest)>> \o n.line, rest |-> n.rest]

IsSkippedNoBlank(l) == IF l = <<>> THEN FALSE ELSE Head(l) = "#"

\* line.starts_with('#') || line.is_empty()
IsSkipped(l) == IF l = <<>> THEN TRUE ELSE Head(l) = "#"

\* the locators the for loop of run reaches for a text, in order
RECURSIVE Locators(_)
Locators(text) ==
    IF text = <<>> THEN <<>>
    ELSE LET n == NextLine(text)
         IN  IF IsSkipped(n.line) THEN Locators(n.rest)
             ELSE <<n.line>> \o Locators(n.rest)

(* ---------------- segment bytes ---------------- *)

\* A byte is a pair <<origin, index>>.  The serving side never reuses a
\* locator for different bytes: a success response for locator l carries
\* SegBytes(l); a non-success response carries the bytes of an error page.
SegBytes(l) == [i \in 1..SegLen |-> <<l, i>>]

ErrorPage == [i \in 1..SegLen |-> << <<"!">>, i >>]

RespBytes(l, st) == IF st = 200 THEN SegBytes(l) ELSE ErrorPage

\* what a file that exists before the session may hold
OldContent == << << <<"old">>, 1 >> >>

(* ---------------- the seen set ---------------- *)

AdmitEvicting(s, l) == [fresh |-> l \notin s, set |-> {l}]

AdmitNeverFresh(s, l) == [fresh |-> FALSE, set |-> s \cup {l}]

AdmitForgetful(s, l) == [fresh |-> l \notin s, set |-> s]

AdmitAlwaysFresh(s, l) == [fresh |-> TRUE, set |-> s \cup {l}]

\* HashSet::insert: whether the value was newly inserted, and the set after
Admit(s, l) == [fresh |-> l \notin s, set |-> s \cup {l}]

(* ---------------- the output file ---------------- *)

\* OpenOptions of new: SegmentRecorder create+write+truncate, Recorder
\* create+append.  The content of the file once it is open.
OpenFile(d, content) == IF d = "SegmentRecorder" THEN <<>> ELSE content

\* whether the draft bounds send() of the playlist request
HasTimeout(d) == d = "SegmentRecorder"

WriteOverwriting(content, b) == <<b>>

WriteAtStart(content, b) == <<b>> \o content

\* the blocking task writes at the end of the file
WriteByte(content, b) == Append(content, b)

(* ---------------- state ---------------- *)

VARIABLES
    draft,      \* which draft of the loop runs
    pc,         \* where the session is: "new", "poll", "pl_send", "pl_body",
                \* "drain", "seg_send", "seg_body", "write", "sleep",
                \* "err" (new or run returned Err), "killed" (terminated from outside)
    err,        \* the kind of the error returned: "none", "io", "network", "timeout"
    exists,     \* whether the output path names a file
    disk,       \* the bytes of the file in storage
    op,         \* the handle's blocking task: "idle", "running", "done", "failed"
    inflight,   \* the bytes the handle holds for the running task
    seen,       \* self.seen
    playlist,   \* the text of the current snapshot
    rest,       \* what playlist.lines() has not yielded yet
    line,       \* the locator being fetched and written
    seg,        \* the bytes of the segment being written
    status,     \* status of the response whose body is being read
    elapsed,    \* seconds since the playlist request was sent
    polls,      \* poll cycles started
    base,       \* history: the content of the file before the first write
    polled,     \* history: the locators of every snapshot, in order
    cycleLocs,  \* history: the locators of this snapshot the loop has reached
    admitLog,   \* history: every call of seen.insert, with the set before and after
    fetched,    \* history: the locators a segment request was sent for
    appended,   \* history: the segments write_all returned Ok for
    failedAt,   \* history: the first failure, with the counts when it happened
    badUse,     \* history: what bodies of non-success responses were used for
    slept,      \* history: the seconds spent in sleep
    landed,     \* history: the locators whose blocking task wrote its last byte
    lost,       \* history: the bytes a failed blocking task dropped
    twin        \* the two drafts run side by side on the same file and the same
                \* responses (used by PairSpec only; at rest in Spec)

progVars ==
    <<draft, pc, err, exists, disk, op, inflight, seen, playlist, rest, line,
      seg, status, elapsed, polls>>

histVars ==
    <<base, polled, cycleLocs, admitLog, fetched, appended, failedAt, badUse,
      slept, landed, lost>>

vars == <<progVars, histVars, twin>>

\* one draft of the pair before Recorder::new / SegmentRecorder::new, the
\* output path holding content
DraftStart(content) ==
    [pc |-> "new", disk |-> content, op |-> "idle", inflight |-> <<>>,
     seen |-> {}, rest |-> <<>>, line |-> <<>>, seg |-> <<>>, polls |-> 0,
     fetched |-> <<>>]

\* both drafts before new, given the same output file; found is the content
\* they were given and stalled whether a playlist request has gone
\* PlaylistTimeoutSecs without headers
TwinStart(content) ==
    [run |-> [d \in Drafts |-> DraftStart(content)],
     found |-> content, stalled |-> FALSE]

NoFailure == [kind |-> "none", fetches |-> 0, appends |-> 0, polls |-> 0]

\* the running time the model follows a stalled request for
ElapsedCap == PlaylistTimeoutSecs + 1

\* the session before new: either draft, the output path absent, empty or
\* holding an earlier recording
SessionInit ==
    /\ draft \in Drafts
    /\ pc = "new"
    /\ err = "none"
    /\ exists \in BOOLEAN
    /\ disk \in IF exists THEN { <<>>, OldContent } ELSE { <<>> }
    /\ op = "idle"
    /\ inflight = <<>>
    /\ seen = {}
    /\ playlist = <<>>
    /\ rest = <<>>
    /\ line = <<>>
    /\ seg = <<>>
    /\ status = 200
    /\ elapsed = 0
    /\ polls = 0
    /\ base = disk
    /\ polled = <<>>
    /\ cycleLocs = <<>>
    /\ admitLog = <<>>
    /\ fetched = <<>>
    /\ appended = <<>>
    /\ failedAt = NoFailure
    /\ badUse = {}
    /\ slept = 0
    /\ landed = <<>>
    /\ lost = <<>>

Init ==
    /\ SessionInit
    /\ twin = TwinStart(<<>>)

\* the first failure of the session is remembered
NoteFailure(kind) ==
    failedAt' = IF failedAt.kind = "none"
                THEN [kind |-> kind, fetches |-> Len(fetched),
                      appends |-> Len(appended), polls |-> polls]
                ELSE failedAt

\* the ? operator: new or run returns Err(kind)
Fail(kind) ==
    /\ pc' = "err"
    /\ err' = kind
    /\ NoteFailure(kind)

(* ---------------- new ---------------- *)

NewOk ==
    /\ pc = "new"
    /\ exists' = TRUE
    /\ disk' = OpenFile(draft, disk)
    /\ base' = disk'
    /\ pc' = "poll"
    /\ UNCHANGED <<twin, draft, err, op, inflight, seen, playlist, rest, line, seg,
                   status, elapsed, polls>>
    /\ UNCHANGED <<polled, cycleLocs, admitLog, fetched, appended, failedAt, badUse, slept, landed, lost>>

\* open fails ("cannot create"): the path is left as it was
NewFail ==
    /\ pc = "new"
    /\ Fail("io")
    /\ UNCHANGED <<twin, draft, exists, disk, op, inflight, seen, playlist, rest, line,
                   seg, status, elapsed, polls>>
    /\ UNCHANGED <<base, polled, cycleLocs, admitLog, fetched, appended, badUse, slept,
                   landed, lost>>

(* ---------------- run: the playlist fetch ---------------- *)

\* loop top: the playlist request is sent
Poll ==
    /\ pc = "poll"
    /\ polls < MaxPolls
    /\ pc' = "pl_send"
    /\ elapsed' = 0
    /\ polls' = polls + 1
    /\ UNCHANGED <<twin, draft, err, exists, disk, op, inflight, seen, playlist, rest,
                   line, seg, status>>
    /\ UNCHANGED histVars

\* a second passes without response headers
PlSendTick ==
    /\ pc = "pl_send"
    /\ elapsed < (IF HasTimeout(draft) THEN PlaylistTimeoutSecs ELSE ElapsedCap)
    /\ elapsed' = elapsed + 1
    /\ UNCHANGED <<twin, draft, pc, err, exists, disk, op, inflight, seen, playlist,
                   rest, line, seg, status, polls>>
    /\ UNCHANGED histVars

\* timeout(..).await? : Elapsed
PlSendTimeout ==
    /\ pc = "pl_send"
    /\ HasTimeout(draft)
    /\ elapsed = PlaylistTimeoutSecs
    /\ Fail("timeout")
    /\ UNCHANGED <<twin, draft, exists, disk, op, inflight, seen, playlist, rest, line,
                   seg, status, elapsed, polls>>
    /\ UNCHANGED <<base, polled, cycleLocs, admitLog, fetched, appended, badUse, slept,
                   landed, lost>>

\* send() fails: connection refused, reset, DNS
PlSendErr ==
    /\ pc = "pl_send"
    /\ Fail("network")
    /\ UNCHANGED <<twin, draft, exists, disk, op, inflight, seen, playlist, rest, line,
                   seg, status, elapsed, polls>>
    /\ UNCHANGED <<base, polled, cycleLocs, admitLog, fetched, appended, badUse, slept,
                   landed, lost>>

\* send() returns Ok(response) whatever the status
PlHeaders(st) ==
    /\ pc = "pl_send"
    /\ HasTimeout(draft) => elapsed < PlaylistTimeoutSecs
    /\ pc' = "pl_body"
    /\ status' = st
    /\ UNCHANGED <<twin, draft, err, exists, disk, op, inflight, seen, playlist, rest,
                   line, seg, elapsed, polls>>
    /\ UNCHANGED histVars

\* a second passes without the body being complete: text() is not bounded
PlBodyTick ==
    /\ pc = "pl_body"
    /\ elapsed < ElapsedCap
    /\ elapsed' = elapsed + 1
    /\ UNCHANGED <<twin, draft, pc, err, exists, disk, op, inflight, seen, playlist,
                   rest, line, seg, status, polls>>
    /\ UNCHANGED histVars

\* text().await? fails: the connection drops while the body is read
PlBodyErr ==
    /\ pc = "pl_body"
    /\ Fail("network")
    /\ UNCHANGED <<twin, draft, exists, disk, op, inflight, seen, playlist, rest, line,
                   seg, status, elapsed, polls>>
    /\ UNCHANGED <<base, polled, cycleLocs, admitLog, fetched, appended, badUse, slept,
                   landed, lost>>

\* text() returns the body; the for loop starts on playlist.lines()
PlBody(text) ==
    /\ pc = "pl_body"
    /\ playlist' = text
    /\ rest' = text
    /\ pc' = "drain"
    /\ elapsed' = 0
    /\ polled' = polled \o Locators(text)
    /\ cycleLocs' = <<>>
    /\ badUse' = IF status = 200 THEN badUse ELSE badUse \cup {"parsed"}
    /\ status' = 200
    /\ UNCHANGED <<twin, draft, err, exists, disk, op, inflight, seen, line, seg, polls>>
    /\ UNCHANGED <<base, admitLog, fetched, appended, failedAt, slept,
                   landed, lost>>

(* ---------------- run: draining the snapshot ---------------- *)

DrainEndReturns ==
    /\ pc = "drain"
    /\ rest = <<>>
    /\ pc' = "done"
    /\ playlist' = <<>>
    /\ elapsed' = 0
    /\ UNCHANGED <<twin, draft, err, exists, disk, op, inflight, seen, rest, line, seg,
                   status, polls>>
    /\ UNCHANGED histVars

DrainEndEarly ==
    /\ pc = "drain"
    /\ pc' = "sleep"
    /\ elapsed' = 0
    /\ UNCHANGED <<twin, draft, err, exists, disk, op, inflight, seen, playlist, rest,
                   line, seg, status, polls>>
    /\ UNCHANGED histVars

DrainEndNoSleep ==
    /\ pc = "drain"
    /\ rest = <<>>
    /\ pc' = "poll"
    /\ playlist' = <<>>
    /\ elapsed' = 0
    /\ UNCHANGED <<twin, draft, err, exists, disk, op, inflight, seen, rest, line, seg,
                   status, polls>>
    /\ UNCHANGED histVars

\* lines() is exhausted: the for loop ends and the sleep begins
DrainEnd ==
    /\ pc = "drain"
    /\ rest = <<>>
    /\ pc' = "sleep"
    /\ playlist' = <<>>
    /\ elapsed' = 0
    /\ UNCHANGED <<twin, draft, err, exists, disk, op, inflight, seen, rest, line, seg,
                   status, polls>>
    /\ UNCHANGED histVars

\* the next line is a directive or blank: continue
DrainSkip ==
    /\ pc = "drain"
    /\ rest # <<>>
    /\ IsSkipped(NextLine(rest).line)
    /\ rest' = NextLine(rest).rest
    /\ UNCHANGED <<twin, draft, pc, err, exists, disk, op, inflight, seen, playlist,
                   line, seg, status, elapsed, polls>>
    /\ UNCHANGED histVars

\* the next line is a locator: seen.insert(line) is called
LogAdmit(l, a) ==
    /\ admitLog' = Append(admitLog,
                          [loc |-> l, fresh |-> a.fresh, before |-> seen, after |-> a.set])
    /\ cycleLocs' = Append(cycleLocs, l)

\* insert returns false: the locator is skipped
DrainSeen ==
    /\ pc = "drain"
    /\ rest # <<>>
    /\ LET n == NextLine(rest)
           a == Admit(seen, n.line)
       IN  /\ ~IsSkipped(n.line)
           /\ ~a.fresh
           /\ rest' = n.rest
           /\ seen' = a.set
           /\ LogAdmit(n.line, a)
    /\ UNCHANGED <<twin, draft, pc, err, exists, disk, op, inflight, playlist, line,
                   seg, status, elapsed, polls>>
    /\ UNCHANGED <<base, polled, fetched, appended, failedAt, badUse, slept, landed, lost>>

\* insert returns true: the segment request is sent
DrainNew ==
    /\ pc = "drain"
    /\ rest # <<>>
    /\ LET n == NextLine(rest)
           a == Admit(seen, n.line)
       IN  /\ ~IsSkipped(n.line)
           /\ a.fresh
           /\ rest' = n.rest
           /\ seen' = a.set
           /\ LogAdmit(n.line, a)
           /\ line' = n.line
           /\ fetched' = Append(fetched, n.line)
    /\ pc' = "seg_send"
    /\ UNCHANGED <<twin, draft, err, exists, disk, op, inflight, playlist, seg,
                   status, elapsed, polls>>
    /\ UNCHANGED <<base, polled, appended, failedAt, badUse, slept, landed, lost>>

(* ---------------- run: the segment fetch ---------------- *)

\* send() fails; a stalled segment request is not bounded
SegSendErr ==
    /\ pc = "seg_send"
    /\ Fail("network")
    /\ UNCHANGED <<twin, draft, exists, disk, op, inflight, seen, playlist, rest, line,
                   seg, status, elapsed, polls>>
    /\ UNCHANGED <<base, polled, cycleLocs, admitLog, fetched, appended, badUse, slept,
                   landed, lost>>

\* send() returns Ok(response) whatever the status
SegHeaders(st) ==
    /\ pc = "seg_send"
    /\ pc' = "seg_body"
    /\ status' = st
    /\ UNCHANGED <<twin, draft, err, exists, disk, op, inflight, seen, playlist, rest,
                   line, seg, elapsed, polls>>
    /\ UNCHANGED histVars

\* bytes().await? fails: the connection drops while the body is read
SegBodyErr ==
    /\ pc = "seg_body"
    /\ Fail("network")
    /\ UNCHANGED <<twin, draft, exists, disk, op, inflight, seen, playlist, rest, line,
                   seg, status, elapsed, polls>>
    /\ UNCHANGED <<base, polled, cycleLocs, admitLog, fetched, appended, badUse, slept,
                   landed, lost>>

\* bytes() returns the whole body; write_all is called with it
SegBody ==
    /\ pc = "seg_body"
    /\ seg' = RespBytes(line, status)
    /\ status' = 200
    /\ pc' = "write"
    /\ UNCHANGED <<twin, draft, err, exists, disk, op, inflight, seen, playlist, rest,
                   line, elapsed, polls>>
    /\ UNCHANGED histVars

(* ---------------- run: the write ---------------- *)

\* write_all finds the previous task failed: its error is returned now
WriteAllErr ==
    /\ pc = "write"
    /\ op = "failed"
    /\ op' = "idle"
    /\ Fail("io")
    /\ UNCHANGED <<twin, draft, exists, disk, inflight, seen, playlist, rest, line,
                   seg, status, elapsed, polls>>
    /\ UNCHANGED <<base, polled, cycleLocs, admitLog, fetched, appended, badUse, slept,
                   landed, lost>>

\* write_all waits for a running task; with none running it copies the
\* bytes into the handle, spawns the task that writes them and returns Ok
WriteAllOk ==
    /\ pc = "write"
    /\ op \in {"idle", "done"}
    /\ inflight' = seg
    /\ op' = "running"
    /\ appended' = Append(appended, [loc |-> line, bytes |-> seg])
    /\ badUse' = IF seg = ErrorPage THEN badUse \cup {"appended"} ELSE badUse
    /\ seg' = <<>>
    /\ pc' = "drain"
    /\ UNCHANGED <<twin, draft, err, exists, disk, seen, playlist, rest, line,
                   status, elapsed, polls>>
    /\ UNCHANGED <<base, polled, cycleLocs, admitLog, fetched, failedAt, slept,
                   landed, lost>>

\* the blocking task writes the next byte of its buffer to the file; it
\* goes on after run has returned, and stops when the process is killed
TaskWrite ==
    /\ op = "running"
    /\ pc # "killed"
    /\ inflight # <<>>
    /\ disk' = WriteByte(disk, Head(inflight))
    /\ inflight' = Tail(inflight)
    /\ op' = IF Tail(inflight) = <<>> THEN "done" ELSE "running"
    /\ landed' = IF Tail(inflight) = <<>>
                 THEN Append(landed, appended[Len(appended)].loc)
                 ELSE landed
    /\ UNCHANGED <<twin, draft, pc, err, exists, seen, playlist, rest, line, seg,
                   status, elapsed, polls>>
    /\ UNCHANGED <<base, polled, cycleLocs, admitLog, fetched, appended, failedAt,
                   badUse, slept, lost>>

\* the write of the blocking task fails (disk full, I/O error): the rest of
\* its buffer is dropped and the result waits for the next write on the handle
TaskFail ==
    /\ op = "running"
    /\ pc # "killed"
    /\ inflight # <<>>
    /\ op' = "failed"
    /\ inflight' = <<>>
    /\ lost' = inflight
    /\ NoteFailure("io")
    /\ UNCHANGED <<twin, draft, pc, err, exists, disk, seen, playlist, rest, line, seg,
                   status, elapsed, polls>>
    /\ UNCHANGED <<base, polled, cycleLocs, admitLog, fetched, appended, badUse, slept,
                   landed>>

(* ---------------- run: the sleep ---------------- *)

\* sleep(5 s) returns: back to the loop top
Wake ==
    /\ pc = "sleep"
    /\ pc' = "poll"
    /\ slept' = slept + SleepSecs
    /\ UNCHANGED <<twin, draft, err, exists, disk, op, inflight, seen, playlist, rest,
                   line, seg, status, elapsed, polls>>
    /\ UNCHANGED <<base, polled, cycleLocs, admitLog, fetched, appended, failedAt, badUse,
                   landed, lost>>

(* ---------------- the outside ---------------- *)

\* the process is terminated (no signal handler is installed): nothing of
\* it runs any more, the file stays as it is
Kill ==
    /\ pc \notin {"err", "killed"}
    /\ pc' = "killed"
    /\ UNCHANGED <<twin, draft, err, exists, disk, op, inflight, seen, playlist, rest,
                   line, seg, status, elapsed, polls>>
    /\ UNCHANGED histVars

Next ==
    \/ NewOk
    \/ NewFail
    \/ Poll
    \/ PlSendTick
    \/ PlSendTimeout
    \/ PlSendErr
    \/ \E st \in Statuses : PlHeaders(st)
    \/ PlBodyTick
    \/ PlBodyErr
    \/ \E text \in Texts : PlBody(text)
    \/ DrainEnd
    \/ DrainSkip
    \/ DrainSeen
    \/ DrainNew
    \/ SegSendErr
    \/ \E st \in Statuses : SegHeaders(st)
    \/ SegBodyErr
    \/ SegBody
    \/ WriteAllErr
    \/ WriteAllOk
    \/ TaskWrite
    \/ TaskFail
    \/ Wake
    \/ Kill

Spec == Init /\ [][Next]_vars

TypeOK ==
    /\ draft \in Drafts
    /\ pc \in {"new", "poll", "pl_send", "pl_body", "drain", "seg_send",
               "seg_body", "write", "sleep", "err", "killed"}
    /\ err \in {"none", "io", "network", "timeout"}
    /\ op \in {"idle", "running", "done", "failed"}
    /\ elapsed \in 0..ElapsedCap
    /\ polls \in 0..MaxPolls

(* ---------------- vocabulary of the properties ---------------- *)

\* the locators of the segments write_all returned Ok for
AppendedLocs == [i \in 1..Len(appended) |-> appended[i].loc]

\* the bytes handed to the output by the write_all calls that returned Ok
Handed == Flatten([i \in 1..Len(appended) |-> appended[i].bytes])

\* the bytes written to the output: those in storage, then those the handle
\* holds for its running task
Output == disk \o inflight

\* no fetch and no write has failed, and every response was a success
NoFault == failedAt.kind = "none" /\ badUse = {}

\* The lines of a text, read off the positions of its newlines: a line
\* starts at position 1 and after every newline, and runs up to the next
\* newline or the end of the text; a start past the end is no line.
LineStarts(text) ==
    { p \in 1..Len(text) : p = 1 \/ text[p - 1] = "\n" }

LineAt(text, p) ==
    LET stops == { q \in p..(Len(text) + 1) : q = Len(text) + 1 \/ text[q] = "\n" }
        stop  == CHOOSE q \in stops : \A r \in stops : q <= r
    IN  SubSeq(text, p, stop - 1)

\* the sequence of the lines that start at the positions ps, in document order
RECURSIVE LinesFrom(_, _)
LinesFrom(text, ps) ==
    IF ps = {} THEN <<>>
    ELSE LET p == CHOOSE q \in ps : \A r \in ps : q <= r
         IN  <<LineAt(text, p)>> \o LinesFrom(text, ps \ {p})

\* the lines that are non-empty and do not start with '#', in document order
ExpectedLocators(text) ==
    LinesFrom(text, { p \in LineStarts(text) : text[p] \notin {"\n", "#"} })

(* ---------------- C1 ---------------- *)

\* C1: over any sequence of snapshots, each distinct segment locator is
\* fetched at most once and its bytes are appended at most once
C1_AtMostOnce == NoDup(fetched) /\ NoDup(AppendedLocs)

\* two cycles were drained, a locator was listed again (in the same or in a
\* later snapshot) after its segment had been fetched and appended
C1_Witness ==
    /\ pc = "sleep"
    /\ polls >= 2
    /\ \E i \in 1..Len(admitLog) :
          /\ ~admitLog[i].fresh
          /\ admitLog[i].loc \in Range(fetched)
          /\ admitLog[i].loc \in Range(AppendedLocs)

(* ---------------- C2 ---------------- *)

\* C2: when no fetch or write fails, after cycle n the segment requests sent
\* are the locators of P1 ++ ... ++ Pn at their first occurrence, in that
\* order, and the bytes written to the output are the concatenation of their
\* segment bytes, after what the file held when it was opened
C2_OutputIsFirstOccurrences ==
    (pc = "sleep" /\ NoFault) =>
        LET firsts == FirstOccurrences(polled, {})
        IN  /\ fetched = firsts
            /\ Output = base \o Flatten([i \in 1..Len(firsts) |-> SegBytes(firsts[i])])

\* the second cycle has ended without fault, its snapshot listed a locator
\* of the first again and brought a new one
C2_Witness ==
    /\ pc = "sleep"
    /\ polls >= 2
    /\ NoFault
    /\ Len(fetched) = 2
    /\ Len(polled) > 2
    /\ Len(disk) >= SegLen

(* ---------------- C3 ---------------- *)

\* C3: the first insert of a locator returns true and records it, every
\* later insert of it returns false and leaves the set unchanged, whatever
\* inserts of other locators happen in between
C3_AdmitIdempotent ==
    /\ \A i \in 1..Len(admitLog) :
          LET e == admitLog[i]
              earlier == { admitLog[j].loc : j \in 1..(i - 1) }
          IN  /\ e.fresh = (e.loc \notin earlier)
              /\ e.loc \in e.after
              /\ e.fresh => e.after = e.before \cup {e.loc}
              /\ ~e.fresh => e.after = e.before
              /\ e.before = (IF i = 1 THEN {} ELSE admitLog[i - 1].after)
    /\ seen = (IF admitLog = <<>> THEN {} ELSE admitLog[Len(admitLog)].after)

\* a locator was inserted, then another one, then the first again
C3_Witness ==
    \E i, j, k \in 1..Len(admitLog) :
        /\ i < j /\ j < k
        /\ admitLog[i].loc = admitLog[k].loc
        /\ admitLog[j].loc # admitLog[i].loc
        /\ admitLog[i].fresh
        /\ ~admitLog[k].fresh

(* ---------------- C4 ---------------- *)

\* the loop has reached, in order, a prefix of the lines of the snapshot that
\* are non-empty and do not start with '#', and all of them once lines() is
\* exhausted
C4_LoopSeesExpected ==
    pc \in {"drain", "seg_send", "seg_body", "write"} =>
        /\ IsPrefix(cycleLocs, ExpectedLocators(playlist))
        /\ rest = <<>> => cycleLocs = ExpectedLocators(playlist)

\* a snapshot without locators takes the loop from draining to the sleep,
\* never to an error or to a segment request
C4_EmptyGoesToSleep ==
    (pc = "drain" /\ ExpectedLocators(playlist) = <<>>) =>
        pc' \in {"drain", "sleep", "killed"}

\* C4: parsing a playlist text yields exactly its lines that are non-empty
\* and do not start with '#', in document order, and never fails; a text with
\* no such line yields nothing, and the loop then sleeps and polls again
C4_ParseAndEmpty == []C4_LoopSeesExpected /\ [][C4_EmptyGoesToSleep]_vars

\* after a first snapshot without locators the loop polled again, and the
\* second snapshot, a directive with no line after it, is drained to nothing
C4_Witness ==
    /\ polls >= 2
    /\ polled = <<>>
    /\ pc = "drain"
    /\ playlist = <<"#", "a">>
    /\ rest = <<>>
    /\ cycleLocs = <<>>

(* ---------------- C5 ---------------- *)

\* C5: a failure of a playlist fetch, a segment fetch or an output write
\* ends run at that step: after the first failure no further segment request
\* is sent, no further segment is appended and no further poll cycle starts
C5_FailureEndsRun ==
    failedAt.kind # "none" =>
        /\ Len(fetched) = failedAt.fetches
        /\ Len(appended) = failedAt.appends
        /\ polls = failedAt.polls

\* the part of C5 about the fetches: a failed or timed-out request ends run
\* at once, with nothing fetched, appended or polled after it
C5_FetchFailureEndsRun ==
    failedAt.kind \in {"network", "timeout"} =>
        /\ pc = "err"
        /\ err = failedAt.kind
        /\ Len(fetched) = failedAt.fetches
        /\ Len(appended) = failedAt.appends
        /\ polls = failedAt.polls

(* ---------------- C6 ---------------- *)

\* C6: the body of a non-success response is never parsed into locators and
\* never appended to the output
C6_NonSuccessIsFatal == badUse = {}

(* ---------------- C7 ---------------- *)

\* the bytes of the segments whose blocking task wrote its last byte
LandedBytes == Flatten([i \in 1..Len(landed) |-> appended[i].bytes])

\* once run or new has returned an error the file holds, in order and after
\* its content at open, every segment whose write completed, and nothing
\* that was not handed to it
C7_FileAtError ==
    pc = "err" =>
        /\ landed = SubSeq(AppendedLocs, 1, Len(landed))
        /\ IsPrefix(base \o LandedBytes, disk)
        /\ IsPrefix(disk, base \o Handed)

\* the step that returns the error, and every step after it, leaves what the
\* file holds in place
C7_ErrorStepKeeps == pc' = "err" => IsPrefix(disk, disk')

C8_PlaylistFetchBounded ==
    pc \in {"pl_send", "pl_body"} => elapsed <= PlaylistTimeoutSecs

\* C8 for the draft that has the timeout: SegmentRecorder's playlist fetch
\* never stays pending beyond the bound
C8_SegmentRecorderBounded ==
    (draft = "SegmentRecorder" /\ pc \in {"pl_send", "pl_body"}) =>
        elapsed <= PlaylistTimeoutSecs

(* ---------------- C9 ---------------- *)

\* C9: whenever no write to the file is under way (the blocking task has
\* ended, by success or failure, or the process was killed), the file
\* holds, after its content at open, whole segments only: never a proper
\* prefix of a segment at its end
C9_WholeSegmentsOnly ==
    (op # "running" \/ pc = "killed") =>
        \E k \in 0..Len(appended) :
            disk = base \o Flatten([i \in 1..k |-> appended[i].bytes])

(* ---------------- C10 ---------------- *)

\* C10: while a segment request or a playlist request is pending, every
\* segment written before it is in storage, none is still held by the handle
C10_FlushedBeforeNextFetch ==
    pc \in {"pl_send", "pl_body", "seg_send", "seg_body"} =>
        /\ Len(landed) = Len(appended)
        /\ disk = base \o Handed

(* ---------------- C11 ---------------- *)

\* C11: opening the output creates the file when it is absent and keeps what
\* it holds: the open step leaves the content as it found it, and no step of
\* the session takes a byte away from the file, so that the file is what it
\* held before open followed by the segments written
C11_OpenKeepsContent ==
    [][/\ (pc = "new" /\ pc' = "poll") => (exists' /\ disk' = disk)
       /\ IsPrefix(disk, disk')]_vars

\* open never leaves the path without a file (the part of C11 that both
\* drafts meet: create(true))
C11_OpenCreates ==
    pc \notin {"new", "err", "killed"} => exists

(* ---------------- C12 ---------------- *)

\* the locator of the segment whose write failed in storage: the first one
\* handed to the output that did not reach the file
FailedWriteLoc == appended[Len(landed) + 1].loc

\* the part of C12 about the order of insert, fetch and write: while the
\* segment of a locator is fetched or about to be written the locator is in
\* the seen-set and nothing of it counts as appended, and a failure of the
\* fetch or of write_all ends the session in that state
C12_AdmittedBeforeFetch ==
    /\ pc \in {"seg_send", "seg_body", "write"} =>
          /\ line \in seen
          /\ fetched[Len(fetched)] = line
          /\ line \notin Range(AppendedLocs)
    /\ (pc = "err" /\ Len(fetched) > Len(appended)) =>
          /\ fetched[Len(fetched)] \in seen
          /\ fetched[Len(fetched)] \notin Range(AppendedLocs)

\* C12: a locator is in the seen-set before its fetch and its write are
\* attempted, a failed fetch or write ends the session with the locator seen
\* and nothing of it counted as appended, and the failure is always surfaced:
\* the locator of a failed write is never skipped in a later cycle of the
\* same session
C12_FailureIsSurfaced ==
    /\ C12_AdmittedBeforeFetch
    /\ (lost # <<>> /\ failedAt.kind = "io") =>
          /\ FailedWriteLoc \notin Range(AppendedLocs)
          /\ ~(polls > failedAt.polls /\ FailedWriteLoc \in Range(cycleLocs))

\* the same without the count: after a failed write its locator is not
\* skipped in a later cycle
C12_FailedWriteNotSkipped ==
    (lost # <<>> /\ failedAt.kind = "io") =>
        ~(polls > failedAt.polls /\ FailedWriteLoc \in Range(cycleLocs))

(* ---------------- C13 ---------------- *)

\* C13: the loop is strictly sequential. While a playlist request is pending
\* no snapshot is being drained and every segment requested so far has had
\* its write_all return; while a segment is fetched or written it is the only
\* one requested whose write_all has not returned; at the loop top, between
\* two lines and in the sleep no request is pending at all
C13_Sequential ==
    /\ pc \in {"pl_send", "pl_body"} =>
          /\ rest = <<>>
          /\ playlist = <<>>
          /\ Len(fetched) = Len(appended)
    /\ pc \in {"seg_send", "seg_body", "write"} =>
          /\ Len(fetched) = Len(appended) + 1
          /\ fetched[Len(fetched)] = line
    /\ pc \in {"poll", "drain", "sleep"} =>
          Len(fetched) = Len(appended)
    /\ IsPrefix(AppendedLocs, fetched)

\* the second playlist request is pending after a cycle that fetched and
\* wrote two segments one after the other
C13_Witness ==
    /\ pc = "pl_send"
    /\ polls = 2
    /\ Len(fetched) = 2
    /\ Len(appended) = 2

(* ---------------- C14 ---------------- *)

\* C14: between two consecutive playlist fetches there is exactly one sleep
\* of SleepSecs (so from the n-th fetch until the next loop top n - 1 sleeps
\* have been slept, and n at the loop top after it); the sleep starts only
\* when the snapshot is drained: every locator polled so far has gone through
\* insert and is seen, and every segment requested has been handed to the
\* output; a cycle that brought no new locator sleeps just the same
C14_OneSleepPerCycle ==
    /\ pc \in {"pl_send", "pl_body", "drain", "seg_send", "seg_body", "write", "sleep"} =>
          slept = SleepSecs * (polls - 1)
    /\ pc = "poll" => slept = SleepSecs * polls
    /\ pc = "sleep" =>
          /\ rest = <<>>
          /\ Range(polled) \subseteq seen
          /\ [i \in 1..Len(admitLog) |-> admitLog[i].loc] = polled
          /\ fetched = AppendedLocs

\* the second playlist request is pending after a cycle whose snapshot had
\* no locator at all: the sleep was slept all the same
C14_Witness ==
    /\ pc = "pl_send"
    /\ polls = 2
    /\ polled = <<>>
    /\ slept = SleepSecs

(* ---------------- C15 ---------------- *)

\* the states of the Polling/Draining cycle
CycleStates ==
    {"poll", "pl_send", "pl_body", "drain", "seg_send", "seg_body", "write", "sleep"}

\* The steps that the runtime and the hypothesis of C15 ("every fetch
\* completes") make sure of: the task of run is polled again whenever it can
\* go on, timers fire, the blocking pool runs the file task, and a request
\* that has not failed gets its headers and its body.
Progress ==
    \/ NewOk
    \/ Poll
    \/ PlSendTimeout
    \/ \E st \in Statuses : PlHeaders(st)
    \/ \E text \in Texts : PlBody(text)
    \/ DrainEnd
    \/ DrainSkip
    \/ DrainSeen
    \/ DrainNew
    \/ \E st \in Statuses : SegHeaders(st)
    \/ SegBody
    \/ WriteAllErr
    \/ WriteAllOk
    \/ TaskWrite
    \/ Wake

FairSpec == Init /\ [][Next]_vars /\ WF_vars(Progress)

\* C15: run has no successful end. A step that leaves the cycle ends in an
\* error or in the termination of the process, and every cycle that starts
\* comes back to the loop top unless a failure or the termination ends it
\* first (with the number of cycles capped at MaxPolls, "infinitely often"
\* is: each of the cycles up to the cap)
C15_NoSuccessfulEnd ==
    /\ [][(pc \in CycleStates /\ pc' \notin CycleStates) => pc' \in {"err", "killed"}]_vars
    /\ \A n \in 1..MaxPolls :
          (pc = "pl_send" /\ polls = n) ~> ((pc = "poll" /\ polls = n) \/ pc \in {"err", "killed"})

\* the loop is back at its top after the last cycle the cap allows, with
\* nothing failed
C15_Witness ==
    /\ pc = "poll"
    /\ polls = MaxPolls
    /\ NoFault
    /\ Len(appended) = 2

(* ---------------- C16 ---------------- *)

\* C16: the output is opened once, before the first playlist fetch, and when
\* run has returned (by error, its only way out) and the handle has been
\* dropped with no write of it still under way, the file holds every byte a
\* write_all returned Ok for: none is lost at the exit of the loop
C16_NothingLostAtExit ==
    /\ polls > 0 => exists
    /\ (pc = "err" /\ op # "running") => disk = base \o Handed

\* the part of C16 about the open: there is a file, opened by the one open
\* step, before the first playlist request is sent
C16_OpenedBeforeFirstFetch ==
    polls > 0 => exists

(* ---------------- C17 ---------------- *)

\* C17: the seen-set starts empty and only grows: every step leaves it as it
\* is or adds exactly one locator to it; no step takes a locator out
C17_SeenGrowsByOne ==
    /\ seen = {}
    /\ [][\/ seen' = seen
          \/ /\ seen \subseteq seen'
             /\ Cardinality(seen' \ seen) = 1]_vars

\* a session that ended by an error in its second cycle, after a failed
\* storage write: both locators admitted on the way are still in the set
C17_Witness ==
    /\ pc = "err"
    /\ polls = 2
    /\ lost # <<>>
    /\ Cardinality(seen) = 2
    /\ \E i \in 1..Len(admitLog) : ~admitLog[i].fresh

(* ---------------- C18 ---------------- *)

\* the locators for which insert returned true, in the order of the calls
Admitted ==
    LET news == SelectSeq(admitLog, LAMBDA e : e.fresh)
    IN  [i \in 1..Len(news) |-> news[i].loc]

\* C18: in every reachable state the appended segments are a prefix of the
\* admitted locators, which exceed them by at most one (the segment in
\* hand); when a cycle has ended without error the two are equal, and every
\* locator of the cycle's snapshot is in the seen-set
C18_AppendedPrefixOfAdmitted ==
    /\ IsPrefix(AppendedLocs, Admitted)
    /\ Len(Admitted) - Len(appended) \in {0, 1}
    /\ pc = "sleep" =>
          /\ AppendedLocs = Admitted
          /\ Len(cycleLocs) <= Len(polled)
          /\ cycleLocs = SubSeq(polled, Len(polled) - Len(cycleLocs) + 1, Len(polled))
          /\ Range(cycleLocs) \subseteq seen

\* the second cycle has admitted a second locator, whose segment is being
\* fetched, after a first cycle that ended with its one segment appended
C18_Witness ==
    /\ pc = "seg_body"
    /\ polls = 2
    /\ Len(Admitted) = 2
    /\ Len(appended) = 1

(* ---------------- C19 ---------------- *)

\* C19: when nothing has failed, no new locator is left pending across
\* cycles: from the moment the sleep begins until the next snapshot arrives,
\* every locator of every snapshot fetched so far has had its segment
\* requested and handed to the output, each in the cycle that first listed it
C19_NothingPendingAcrossCycles ==
    (pc \in {"sleep", "poll", "pl_send", "pl_body"} /\ failedAt.kind = "none") =>
        /\ Range(polled) \subseteq Range(fetched)
        /\ Range(polled) \subseteq Range(AppendedLocs)
        /\ \A i \in 1..Len(admitLog) :
              (admitLog[i].fresh /\ admitLog[i].loc \in Range(AppendedLocs))
              \/ (~admitLog[i].fresh /\ admitLog[i].loc \in admitLog[i].before)

\* the second cycle is asleep with nothing failed: it brought a new locator
\* after the first cycle's, and both segments are appended
C19_Witness ==
    /\ pc = "sleep"
    /\ polls = 2
    /\ failedAt.kind = "none"
    /\ Len(cycleLocs) = 1
    /\ Len(AppendedLocs) = 2
    /\ AppendedLocs[2] = cycleLocs[1]

(* ---------------- C20: the two drafts side by side ---------------- *)

(* The loop of either draft as a function of its state and of what the
   outside does next. Both drafts of a pair get the same file at the start
   and the same events: the same outcome of open, the same responses, the
   same behaviour of storage. An event that finds a draft elsewhere than
   where it applies leaves that draft as it is. *)

\* new: the output file is opened
AfterNew(d, s) ==
    IF s.pc = "new"
    THEN [s EXCEPT !.pc = "poll", !.disk = OpenFile(d, s.disk)]
    ELSE s

\* new: open fails
AfterNewFail(d, s) ==
    IF s.pc = "new" THEN [s EXCEPT !.pc = "err"] ELSE s

\* loop top: the playlist request is sent
AfterPoll(d, s) ==
    IF s.pc = "poll" /\ s.polls < MaxPolls
    THEN [s EXCEPT !.pc = "pl_send", !.polls = @ + 1]
    ELSE s

\* PlaylistTimeoutSecs pass without the headers of the playlist response
AfterStall(d, s) ==
    IF s.pc = "pl_send" /\ HasTimeout(d) THEN [s EXCEPT !.pc = "err"] ELSE s

\* the playlist request or its body fails
AfterPlErr(d, s) ==
    IF s.pc = "pl_send" THEN [s EXCEPT !.pc = "err"] ELSE s

\* the playlist response arrives with its body
AfterPlBody(d, s, text) ==
    IF s.pc = "pl_send" THEN [s EXCEPT !.pc = "drain", !.rest = text] ELSE s

\* one turn of the for loop over lines(): its end, a skipped line, a
\* locator seen before, or a new locator whose segment request is sent
AfterLine(d, s) ==
    IF s.pc # "drain" THEN s
    ELSE IF s.rest = <<>> THEN [s EXCEPT !.pc = "sleep"]
    ELSE LET n == NextLine(s.rest)
             a == Admit(s.seen, n.line)
         IN  IF IsSkipped(n.line) THEN [s EXCEPT !.rest = n.rest]
             ELSE IF ~a.fresh THEN [s EXCEPT !.rest = n.rest, !.seen = a.set]
             ELSE [s EXCEPT !.rest = n.rest, !.seen = a.set, !.line = n.line,
                            !.fetched = Append(@, n.line), !.pc = "seg_send"]

\* the segment request or its body fails
AfterSegErr(d, s) ==
    IF s.pc = "seg_send" THEN [s EXCEPT !.pc = "err"] ELSE s

\* the segment response arrives with its body
AfterSegBody(d, s, st) ==
    IF s.pc = "seg_send"
    THEN [s EXCEPT !.pc = "write", !.seg = RespBytes(s.line, st)]
    ELSE s

\* write_all: the error of a failed task, or the bytes buffered and a task
\* spawned; behind a running task it waits
AfterWriteAll(d, s) ==
    IF s.pc # "write" \/ s.op = "running" THEN s
    ELSE IF s.op = "failed" THEN [s EXCEPT !.pc = "err", !.op = "idle"]
    ELSE [s EXCEPT !.pc = "drain", !.op = "running", !.inflight = s.seg,
                   !.seg = <<>>]

\* the blocking task writes its next byte
AfterTaskWrite(d, s) ==
    IF s.op = "running"
    THEN [s EXCEPT !.disk = WriteByte(@, Head(s.inflight)),
                   !.inflight = Tail(@),
                   !.op = IF Tail(s.inflight) = <<>> THEN "done" ELSE "running"]
    ELSE s

\* the write of the blocking task fails
AfterTaskFail(d, s) ==
    IF s.op = "running"
    THEN [s EXCEPT !.op = "failed", !.inflight = <<>>]
    ELSE s

\* sleep returns
AfterWake(d, s) ==
    IF s.pc = "sleep" THEN [s EXCEPT !.pc = "poll"] ELSE s

\* the pair moves to next, which an event made of it
TwinMoves(next) ==
    /\ next # twin.run
    /\ twin' = [twin EXCEPT !.run = next]

TwinNew ==
    /\ TwinMoves([d \in Drafts |-> AfterNew(d, twin.run[d])])
    /\ UNCHANGED <<progVars, histVars>>

TwinNewFail ==
    /\ TwinMoves([d \in Drafts |-> AfterNewFail(d, twin.run[d])])
    /\ UNCHANGED <<progVars, histVars>>

TwinPoll ==
    /\ TwinMoves([d \in Drafts |-> AfterPoll(d, twin.run[d])])
    /\ UNCHANGED <<progVars, histVars>>

TwinStall ==
    /\ \E d \in Drafts : twin.run[d].pc = "pl_send"
    /\ twin' = [twin EXCEPT !.run = [d \in Drafts |-> AfterStall(d, twin.run[d])],
                            !.stalled = TRUE]
    /\ UNCHANGED <<progVars, histVars>>

TwinPlErr ==
    /\ TwinMoves([d \in Drafts |-> AfterPlErr(d, twin.run[d])])
    /\ UNCHANGED <<progVars, histVars>>

TwinPlBody(text) ==
    /\ TwinMoves([d \in Drafts |-> AfterPlBody(d, twin.run[d], text)])
    /\ UNCHANGED <<progVars, histVars>>

TwinLine ==
    /\ TwinMoves([d \in Drafts |-> AfterLine(d, twin.run[d])])
    /\ UNCHANGED <<progVars, histVars>>

TwinSegErr ==
    /\ TwinMoves([d \in Drafts |-> AfterSegErr(d, twin.run[d])])
    /\ UNCHANGED <<progVars, histVars>>

TwinSegBody(st) ==
    /\ TwinMoves([d \in Drafts |-> AfterSegBody(d, twin.run[d], st)])
    /\ UNCHANGED <<progVars, histVars>>

TwinWriteAll ==
    /\ TwinMoves([d \in Drafts |-> AfterWriteAll(d, twin.run[d])])
    /\ UNCHANGED <<progVars, histVars>>

TwinTaskWrite ==
    /\ TwinMoves([d \in Drafts |-> AfterTaskWrite(d, twin.run[d])])
    /\ UNCHANGED <<progVars, histVars>>

TwinTaskFail ==
    /\ TwinMoves([d \in Drafts |-> AfterTaskFail(d, twin.run[d])])
    /\ UNCHANGED <<progVars, histVars>>

TwinWake ==
    /\ TwinMoves([d \in Drafts |-> AfterWake(d, twin.run[d])])
    /\ UNCHANGED <<progVars, histVars>>

PairInit ==
    /\ SessionInit
    /\ draft = "Recorder"
    /\ twin = TwinStart(disk)

PairNext ==
    \/ TwinNew
    \/ TwinNewFail
    \/ TwinPoll
    \/ TwinStall
    \/ TwinPlErr
    \/ \E text \in Texts : TwinPlBody(text)
    \/ TwinLine
    \/ TwinSegErr
    \/ \E st \in Statuses : TwinSegBody(st)
    \/ TwinWriteAll
    \/ TwinTaskWrite
    \/ TwinTaskFail
    \/ TwinWake

PairSpec == PairInit /\ [][PairNext]_vars

\* what C20 compares: the segment requests sent, the seen-set, the file
Observed(s) == [fetched |-> s.fetched, seen |-> s.seen, disk |-> s.disk]

\* C20: given the same output file and the same playlist and segment
\* responses, Recorder and SegmentRecorder have sent the same segment
\* requests, hold the same seen-set and have the same file content after
\* every step
C20_DraftsAgree ==
    Observed(twin.run["Recorder"]) = Observed(twin.run["SegmentRecorder"])

\* the same for an output file that was absent or empty: the drafts still
\* part when a playlist request stays without headers for PlaylistTimeoutSecs
C20_AgreeOnEmptyFile ==
    twin.found = <<>> =>
        Observed(twin.run["Recorder"]) = Observed(twin.run["SegmentRecorder"])

\* apart from the open of a file that holds bytes and from the stalled
\* playlist request the two drafts go through the same states
C20_AgreeOtherwise ==
    (twin.found = <<>> /\ ~twin.stalled) =>
        twin.run["Recorder"] = twin.run["SegmentRecorder"]

====
